---------------------------- MODULE Spec2Model ----------------------------
(***************************************************************************)
(* The k-bucket contact store of drogulus (drogulus/dht/kbucket.py).       *)
(*                                                                         *)
(* A KBucket holds a Python list of contacts, _contacts, ordered from the  *)
(* least recently seen contact (head) to the most recently seen (tail),    *)
(* the bounds of the slice of the key space it covers and a last_accessed  *)
(* stamp.  Every method of the class is one action; a call runs to         *)
(* completion before the next one starts.                                  *)
(*                                                                         *)
(* The variables op, arg, outcome, ret and prev record the last call: its  *)
(* name, its arguments, whether it returned or which exception it raised,  *)
(* the value it returned and the list as it was when the call started.     *)
(* seen is a history variable: the rank, among the contacts added and not  *)
(* removed since, of each ID's most recent successful add_contact.         *)
(*                                                                         *)
(* given, held and shared follow a list a caller got from get_contacts:    *)
(* the list as it was returned, the list as the caller sees it now, and    *)
(* whether it is the bucket's own list object (SpecHeld).                  *)
(*                                                                         *)
(* pc, local and mid belong to SpecConc, where the calls of several        *)
(* threads overlap: the line each thread is about to run, the argument and *)
(* the local variable of its call, and, for the call that finished last,   *)
(* the IDs an overlapping add_contact had then taken out of the list and   *)
(* not yet put back.  There op, arg, outcome and ret record the call that  *)
(* finished last.                                                          *)
(***************************************************************************)
EXTENDS Integers, Sequences, FiniteSets

VARIABLES _contacts, range_min, range_max, last_accessed,
          op, arg, outcome, ret, prev, seen,
          given, held, shared,
          pc, local, mid

heldVars == <<given, held, shared>>
concVars == <<pc, local, mid>>

vars == <<_contacts, range_min, range_max, last_accessed,
          op, arg, outcome, ret, prev, seen, heldVars, concVars>>

(***************************************************************************)
(* Bounds of the model.                                                    *)
(***************************************************************************)
\* Capacity of a bucket (drogulus.constants.K, 20 in the reference system).
K == 3
\* Node IDs: one more than fit in a bucket, so that a full bucket still
\* meets an ID it does not hold.
Ids == 1..(K + 1)
\* What a contact carries besides its ID (its network address): every node
\* is seen at address "a", and the nodes of Movers at address "b" as well.
Addrs == {"a", "b"}
Movers == {1}

(***************************************************************************)
(* Values.  A Contact, a bare identifier (a str) and None share one record *)
(* shape so that any two of them can be compared.                          *)
(***************************************************************************)
Contact(i, a) == [kind |-> "Contact", id |-> i, addr |-> a]
RawId(i) == [kind |-> "str", id |-> i, addr |-> "-"]
None == [kind |-> "None", id |-> 0, addr |-> "-"]

AllContacts == {Contact(i, "a") : i \in Ids} \cup {Contact(i, "b") : i \in Movers}
AllRawIds == {RawId(i) : i \in Ids}
\* What a caller names a contact by: the Contact or its bare ID.
Targets == AllContacts \cup AllRawIds

\* Contact.__eq__: two contacts are equal when their IDs are, and a
\* contact equals a bare identifier when that is its ID.  None equals
\* only None.
ContactEq(x, y) ==
    IF x.kind = "None" \/ y.kind = "None"
    THEN x.kind = y.kind
    ELSE x.id = y.id

(***************************************************************************)
(* Python's list operations, as the methods use them.                      *)
(***************************************************************************)
\* list.index(x): the position of the first element equal to x, 0 when
\* there is none (Python raises ValueError).
ListIndex(list, x) ==
    IF \E i \in 1..Len(list) : ContactEq(list[i], x)
    THEN CHOOSE i \in 1..Len(list) :
            /\ ContactEq(list[i], x)
            /\ \A j \in 1..(i - 1) : ~ContactEq(list[j], x)
    ELSE 0

\* x in list
ListContains(list, x) == \E i \in 1..Len(list) : ContactEq(list[i], x)

\* list.remove(x): the list without its first element equal to x.  Only
\* used where such an element exists.
ListRemove(list, x) ==
    LET i == ListIndex(list, x)
    IN  [j \in 1..(Len(list) - 1) |-> IF j < i THEN list[j] ELSE list[j + 1]]

\* list[:n]
ListSlice(list, n) ==
    LET stop == IF n < 0
                THEN (IF Len(list) + n < 0 THEN 0 ELSE Len(list) + n)
                ELSE (IF n > Len(list) THEN Len(list) ELSE n)
    IN  [j \in 1..stop |-> list[j]]

(***************************************************************************)
(* The methods of KBucket, as functions of the list and the arguments.     *)
(* Each yields the list after the call, the exception raised ("ok" when    *)
(* the call returns) and the value returned.                               *)
(***************************************************************************)
\* A list object is the bucket's own list, self._contacts, or a new list:
\* what is done to the bucket's own list is done to the bucket.
OwnList(l) == [own |-> TRUE, val |-> l]
NewList(l) == [own |-> FALSE, val |-> l]
\* obj.remove(x)
ObjRemove(obj, x) == [obj EXCEPT !.val = ListRemove(obj.val, x)]

NoRet == [kind |-> "None"]
RetContact(c) == [kind |-> "Contact", contact |-> c]
RetList(obj) == [kind |-> "list", list |-> obj.val, own |-> obj.own]
RetInt(n) == [kind |-> "int", n |-> n]
RetBool(b) == [kind |-> "bool", b |-> b]

Returned(list, r) == [contacts |-> list, outcome |-> "ok", ret |-> r]
Raised(list, e) == [contacts |-> list, outcome |-> e, ret |-> NoRet]
\* A method returning the list object obj, the bucket's list having been
\* list unless obj is that very list.
ReturnedList(list, obj) ==
    Returned(IF obj.own THEN obj.val ELSE list, RetList(obj))

(***************************************************************************)
(* Faulty variants of add_contact, each a slip the code could contain.     *)
(***************************************************************************)
\* The capacity test off by one: len(self._contacts) <= K.
add_contact_off_by_one(list, contact) ==
    IF ListContains(list, contact)
    THEN Returned(Append(ListRemove(list, contact), contact), NoRet)
    ELSE IF Len(list) <= K
         THEN Returned(Append(list, contact), NoRet)
         ELSE Raised(list, "KBucketFull")

\* Membership by object equality (a Contact without __eq__) instead of by ID.
add_contact_by_identity(list, contact) ==
    IF \E i \in 1..Len(list) : list[i] = contact
    THEN Returned(Append(ListRemove(list, contact), contact), NoRet)
    ELSE IF Len(list) < K
         THEN Returned(Append(list, contact), NoRet)
         ELSE Raised(list, "KBucketFull")

\* A contact already present is left where it is.
add_contact_no_move(list, contact) ==
    IF ListContains(list, contact)
    THEN Returned(list, NoRet)
    ELSE IF Len(list) < K
         THEN Returned(Append(list, contact), NoRet)
         ELSE Raised(list, "KBucketFull")

\* A full bucket drops its head to make room before it raises.
add_contact_evict(list, contact) ==
    IF ListContains(list, contact)
    THEN Returned(Append(ListRemove(list, contact), contact), NoRet)
    ELSE IF Len(list) < K
         THEN Returned(Append(list, contact), NoRet)
         ELSE Raised(Tail(list), "KBucketFull")

\* The capacity test made before the membership test.
add_contact_full_first(list, contact) ==
    IF Len(list) >= K
    THEN Raised(list, "KBucketFull")
    ELSE IF ListContains(list, contact)
         THEN Returned(Append(ListRemove(list, contact), contact), NoRet)
         ELSE Returned(Append(list, contact), NoRet)

\* A new contact inserted at the head: self._contacts.insert(0, contact).
add_contact_prepend(list, contact) ==
    IF ListContains(list, contact)
    THEN Returned(Append(ListRemove(list, contact), contact), NoRet)
    ELSE IF Len(list) < K
         THEN Returned(<<contact>> \o list, NoRet)
         ELSE Raised(list, "KBucketFull")

\* A full bucket makes room by dropping its least recently seen contact.
add_contact_replace_oldest(list, contact) ==
    IF ListContains(list, contact)
    THEN Returned(Append(ListRemove(list, contact), contact), NoRet)
    ELSE IF Len(list) < K
         THEN Returned(Append(list, contact), NoRet)
         ELSE Returned(Append(Tail(list), contact), NoRet)

\* A contact outside the bucket's range is refused.
add_contact_in_range_only(list, contact) ==
    IF ~(range_min <= contact.id /\ contact.id < range_max)
    THEN Raised(list, "ValueError")
    ELSE IF ListContains(list, contact)
         THEN Returned(Append(ListRemove(list, contact), contact), NoRet)
         ELSE IF Len(list) < K
              THEN Returned(Append(list, contact), NoRet)
              ELSE Raised(list, "KBucketFull")

\* Line 75 left out: a contact already present is appended once more.
add_contact_no_remove(list, contact) ==
    IF ListContains(list, contact)
    THEN Returned(Append(list, contact), NoRet)
    ELSE IF Len(list) < K
         THEN Returned(Append(list, contact), NoRet)
         ELSE Raised(list, "KBucketFull")

add_contact(list, contact) ==
    IF ListContains(list, contact)
    THEN Returned(Append(ListRemove(list, contact), contact), NoRet)
    ELSE IF Len(list) < K
         THEN Returned(Append(list, contact), NoRet)
         ELSE Raised(list, "KBucketFull")

\* Faulty variant: the element before the one found,
\* self._contacts[index - 1].
get_contact_off_by_one(list, id) ==
    LET index == ListIndex(list, id)
    IN  IF index = 0
        THEN Raised(list, "ValueError")
        ELSE Returned(list, RetContact(list[IF index = 1 THEN Len(list) ELSE index - 1]))

get_contact(list, id) ==
    LET index == ListIndex(list, id)
    IN  IF index = 0
        THEN Raised(list, "ValueError")
        ELSE Returned(list, RetContact(list[index]))

\* Faulty variant: the most recently seen contacts,
\* self._contacts[-count:], instead of the first ones.
get_contacts_tail(list, count, exclude_contact) ==
    LET current_len == Len(list)
        cnt == IF count <= 0 THEN current_len ELSE count
        contact_list ==
            IF list = <<>>
            THEN NewList(<<>>)
            ELSE IF current_len < cnt
                 THEN NewList(ListSlice(list, current_len))
                 ELSE NewList(SubSeq(list, current_len - cnt + 1, current_len))
    IN  IF ListContains(contact_list.val, exclude_contact)
        THEN ReturnedList(list, ObjRemove(contact_list, exclude_contact))
        ELSE ReturnedList(list, contact_list)

\* Faulty variant: the excluded contact taken out of the whole list
\* before the first "count" contacts are cut from it.
get_contacts_exclude_first(list, count, exclude_contact) ==
    LET kept == IF ListContains(list, exclude_contact)
                THEN ListRemove(list, exclude_contact)
                ELSE list
        current_len == Len(kept)
        cnt == IF count <= 0 THEN current_len ELSE count
    IN  ReturnedList(list, NewList(ListSlice(kept, IF current_len < cnt
                                                   THEN current_len ELSE cnt)))

\* Faulty variant: all contacts wanted, the bucket's own list is handed
\* out, contact_list = self._contacts, instead of a copy of it.
get_contacts_no_copy(list, count, exclude_contact) ==
    LET current_len == Len(list)
        cnt == IF count <= 0 THEN current_len ELSE count
        contact_list ==
            IF list = <<>>
            THEN NewList(<<>>)
            ELSE IF current_len < cnt
                 THEN OwnList(list)
                 ELSE NewList(ListSlice(list, cnt))
    IN  IF ListContains(contact_list.val, exclude_contact)
        THEN ReturnedList(list, ObjRemove(contact_list, exclude_contact))
        ELSE ReturnedList(list, contact_list)

\* The list literal and the slices each build a new list object.
get_contacts(list, count, exclude_contact) ==
    LET current_len == Len(list)
        cnt == IF count <= 0 THEN current_len ELSE count
        contact_list ==
            IF list = <<>>
            THEN NewList(<<>>)
            ELSE IF current_len < cnt
                 THEN NewList(ListSlice(list, current_len))
                 ELSE NewList(ListSlice(list, cnt))
    IN  IF ListContains(contact_list.val, exclude_contact)
        THEN ReturnedList(list, ObjRemove(contact_list, exclude_contact))
        ELSE ReturnedList(list, contact_list)

\* Faulty variant: the ValueError of an absent ID swallowed.
remove_contact_quiet(list, id) ==
    IF ListContains(list, id)
    THEN Returned(ListRemove(list, id), NoRet)
    ELSE Returned(list, NoRet)

remove_contact(list, id) ==
    IF ListContains(list, id)
    THEN Returned(ListRemove(list, id), NoRet)
    ELSE Raised(list, "ValueError")

\* hex_to_long of drogulus.utils: the number a string of hex digits
\* (most significant first, each digit given by its value) stands for.
RECURSIVE hex_to_long(_)
hex_to_long(s) ==
    IF s = <<>>
    THEN 0
    ELSE 16 * hex_to_long(SubSeq(s, 1, Len(s) - 1)) + s[Len(s)]

\* A key is an integer or a hex string.
IntKey(n) == [kind |-> "int", n |-> n, digits |-> <<>>]
StrKey(s) == [kind |-> "str", n |-> 0, digits |-> s]

\* Faulty variant: the upper bound taken in, key <= self.range_max.
key_in_range_inclusive(rmin, rmax, key) ==
    LET k == IF key.kind = "str" THEN hex_to_long(key.digits) ELSE key.n
    IN  rmin <= k /\ k <= rmax

\* Faulty variant: a str key compared as it is.  Python 2 orders every
\* str above every number, so no str key is below range_max.
key_in_range_no_convert(rmin, rmax, key) ==
    IF key.kind = "str"
    THEN FALSE
    ELSE rmin <= key.n /\ key.n < rmax

key_in_range(rmin, rmax, key) ==
    LET k == IF key.kind = "str" THEN hex_to_long(key.digits) ELSE key.n
    IN  rmin <= k /\ k < rmax

len(list) == Len(list)

(***************************************************************************)
(* The history variable seen.  A successful add_contact stamps the ID as   *)
(* the latest; the stamps of the IDs in the bucket are kept as ranks 1..n  *)
(* (their order is all that matters), 0 for an ID not in the bucket.       *)
(***************************************************************************)
Rank(f, i) ==
    IF f[i] = 0 THEN 0
    ELSE Cardinality({j \in Ids : f[j] # 0 /\ f[j] <= f[i]})

Ranked(f) == [i \in Ids |-> Rank(f, i)]

Touch(f, i) == Ranked([f EXCEPT ![i] = K + 2])
Forget(f, i) == Ranked([f EXCEPT ![i] = 0])

(***************************************************************************)
(* The inputs.                                                             *)
(***************************************************************************)
\* The slices of the key space a bucket is built for.
\* The threads that call the bucket.
Threads == {"t1", "t2"}
NoLocal == [contact |-> None, index |-> 0]

Ranges == {<<0, 3>>, <<3, 20>>}
Counts == (-1)..(K + 1)
Excludes == Targets \cup {None}
KeyInts == {0, 2, 3, 19, 20}
HexStrings == {<<2>>, <<3>>, <<0, 3>>, <<1, 3>>, <<1, 4>>}
Keys == {IntKey(n) : n \in KeyInts} \cup {StrKey(s) : s \in HexStrings}

NoArg == [contact |-> None, count |-> 0, key |-> IntKey(0)]

(***************************************************************************)
(* The state after KBucket(range_min, range_max).                          *)
(***************************************************************************)
Init ==
    /\ \E r \in Ranges : range_min = r[1] /\ range_max = r[2]
    /\ _contacts = <<>>
    /\ last_accessed = 0
    /\ op = "__init__"
    /\ arg = NoArg
    /\ outcome = "ok"
    /\ ret = NoRet
    /\ prev = <<>>
    /\ seen = [i \in Ids |-> 0]
    /\ given = <<>>
    /\ held = <<>>
    /\ shared = FALSE
    /\ pc = [t \in Threads |-> "idle"]
    /\ local = [t \in Threads |-> NoLocal]
    /\ mid = {}

\* Faulty variant: a call stamps the bucket as accessed.
Fixed_stamped ==
    /\ UNCHANGED <<range_min, range_max>>
    /\ last_accessed' = 1

\* What a call leaves of the bucket besides the list.
Fixed == UNCHANGED <<range_min, range_max, last_accessed>>

Call(name, a, r) ==
    /\ op' = name
    /\ arg' = a
    /\ prev' = _contacts
    /\ _contacts' = r.contacts
    /\ outcome' = r.outcome
    /\ ret' = r.ret
    /\ Fixed
    /\ UNCHANGED concVars

\* One call of each method that reads or writes the list.
Add(contact) ==
    LET r == add_contact(_contacts, contact)
    IN  /\ Call("add_contact", [NoArg EXCEPT !.contact = contact], r)
        /\ seen' = IF r.outcome = "ok" THEN Touch(seen, contact.id) ELSE seen

Get(id) ==
    /\ Call("get_contact", [NoArg EXCEPT !.contact = id],
            get_contact(_contacts, id))
    /\ UNCHANGED seen

GetList(count, exclude_contact) ==
    /\ Call("get_contacts",
            [NoArg EXCEPT !.contact = exclude_contact, !.count = count],
            get_contacts(_contacts, count, exclude_contact))
    /\ UNCHANGED seen

Remove(id) ==
    LET r == remove_contact(_contacts, id)
    IN  /\ Call("remove_contact", [NoArg EXCEPT !.contact = id], r)
        /\ seen' = IF r.outcome = "ok" THEN Forget(seen, id.id) ELSE seen

AddContact ==
    \E contact \in AllContacts : Add(contact) /\ UNCHANGED heldVars

GetContact ==
    \E id \in Targets : Get(id) /\ UNCHANGED heldVars

GetContacts ==
    \E count \in Counts, exclude_contact \in Excludes :
        GetList(count, exclude_contact) /\ UNCHANGED heldVars

RemoveContact ==
    \E id \in Targets : Remove(id) /\ UNCHANGED heldVars

KeyInRange ==
    \E key \in Keys :
        /\ Call("key_in_range", [NoArg EXCEPT !.key = key],
                Returned(_contacts, RetBool(key_in_range(range_min, range_max, key))))
        /\ UNCHANGED <<seen, heldVars>>

Size ==
    /\ Call("__len__", NoArg, Returned(_contacts, RetInt(len(_contacts))))
    /\ UNCHANGED <<seen, heldVars>>

Next ==
    \/ AddContact
    \/ GetContact
    \/ GetContacts
    \/ RemoveContact
    \/ KeyInRange
    \/ Size

Spec == Init /\ [][Next]_vars

(***************************************************************************)
(* A caller that keeps the list get_contacts returned while the bucket is  *)
(* written to.  A list that is the bucket's own list object changes with   *)
(* the bucket; a new list does not.                                        *)
(***************************************************************************)
HeldCounts == {0, 2}
HeldExcludes == {None, RawId(1)}
\* The contacts the bucket is written with meanwhile.
HeldContacts == {Contact(1, "a"), Contact(2, "a"), Contact(3, "a")}
HeldTargets == {RawId(1), RawId(2), RawId(3)}

\* One bucket will do: the range plays no part in what is followed here.
InitHeld == Init /\ range_min = 0

\* The caller's list across a write to the bucket.
Track ==
    /\ UNCHANGED <<given, shared>>
    /\ held' = IF shared THEN _contacts' ELSE held

GetContactsHeld ==
    \E count \in HeldCounts, exclude_contact \in HeldExcludes :
        /\ GetList(count, exclude_contact)
        /\ given' = ret'.list
        /\ held' = ret'.list
        /\ shared' = ret'.own

AddContactHeld ==
    \E contact \in HeldContacts : Add(contact) /\ Track

RemoveContactHeld ==
    \E id \in HeldTargets : Remove(id) /\ Track

NextHeld ==
    \/ GetContactsHeld
    \/ AddContactHeld
    \/ RemoveContactHeld

SpecHeld == InitHeld /\ [][NextHeld]_vars

(***************************************************************************)
(* Calls that overlap.  The class takes no lock, so between two lines of   *)
(* one thread's call any line of another thread's call may run.  A step    *)
(* is one line of a method: the membership test, list.remove, list.append, *)
(* the capacity test, list.index, the subscript, len.                      *)
(***************************************************************************)
ConcContacts == {Contact(i, "a") : i \in Ids}
ConcTargets == {RawId(1)}

\* The IDs that an add_contact of a thread other than t has removed at
\* line 75 and not yet appended at line 76, no remove_contact of that ID
\* being under way.
MidTouch(t) ==
    {i \in Ids :
        /\ \E u \in Threads \ {t} :
              pc[u] = "L76" /\ local[u].contact.id = i
        /\ ~\E v \in Threads :
              pc[v] = "L128" /\ local[v].contact.id = i}

\* Thread t goes on to line l of its call.
Goto(t, l) ==
    /\ pc' = [pc EXCEPT ![t] = l]
    /\ UNCHANGED <<op, arg, outcome, ret, mid>>

\* The call of thread t ends: it returns r or raises e.
Finish(t, name, e, r) ==
    /\ pc' = [pc EXCEPT ![t] = "idle"]
    /\ op' = name
    /\ arg' = [NoArg EXCEPT !.contact = local[t].contact]
    /\ outcome' = e
    /\ ret' = r
    /\ mid' = MidTouch(t)

Conc == Fixed /\ UNCHANGED <<prev, seen, heldVars>>

\* A thread calls a method.
Begin(t) ==
    /\ pc[t] = "idle"
    /\ \/ \E contact \in ConcContacts :
             /\ local' = [local EXCEPT ![t] = [NoLocal EXCEPT !.contact = contact]]
             /\ pc' = [pc EXCEPT ![t] = "L74"]
       \/ \E id \in ConcTargets, l \in {"L88", "L128"} :
             /\ local' = [local EXCEPT ![t] = [NoLocal EXCEPT !.contact = id]]
             /\ pc' = [pc EXCEPT ![t] = l]
       \/ /\ local' = [local EXCEPT ![t] = NoLocal]
          /\ pc' = [pc EXCEPT ![t] = "L144"]
    /\ UNCHANGED <<_contacts, op, arg, outcome, ret, mid>>
    /\ Conc

\* add_contact, line 74: if contact in self._contacts
Test74(t) ==
    /\ pc[t] = "L74"
    /\ Goto(t, IF ListContains(_contacts, local[t].contact) THEN "L75" ELSE "L77")
    /\ UNCHANGED <<_contacts, local>>
    /\ Conc

\* add_contact, line 75: self._contacts.remove(contact)
Remove75(t) ==
    /\ pc[t] = "L75"
    /\ IF ListContains(_contacts, local[t].contact)
       THEN /\ _contacts' = ListRemove(_contacts, local[t].contact)
            /\ Goto(t, "L76")
       ELSE /\ Finish(t, "add_contact", "ValueError", NoRet)
            /\ UNCHANGED _contacts
    /\ UNCHANGED local
    /\ Conc

\* add_contact, line 76: self._contacts.append(contact)
Append76(t) ==
    /\ pc[t] = "L76"
    /\ _contacts' = Append(_contacts, local[t].contact)
    /\ Finish(t, "add_contact", "ok", NoRet)
    /\ UNCHANGED local
    /\ Conc

\* add_contact, lines 77 to 80: elif len(self._contacts) < K ... else raise
Test77(t) ==
    /\ pc[t] = "L77"
    /\ IF Len(_contacts) < K
       THEN Goto(t, "L78")
       ELSE Finish(t, "add_contact", "KBucketFull", NoRet)
    /\ UNCHANGED <<_contacts, local>>
    /\ Conc

\* add_contact, line 78: self._contacts.append(contact)
Append78(t) ==
    /\ pc[t] = "L78"
    /\ _contacts' = Append(_contacts, local[t].contact)
    /\ Finish(t, "add_contact", "ok", NoRet)
    /\ UNCHANGED local
    /\ Conc

\* get_contact, line 88: index = self._contacts.index(id)
Index88(t) ==
    /\ pc[t] = "L88"
    /\ LET index == ListIndex(_contacts, local[t].contact)
       IN  IF index = 0
           THEN /\ Finish(t, "get_contact", "ValueError", NoRet)
                /\ UNCHANGED local
           ELSE /\ Goto(t, "L89")
                /\ local' = [local EXCEPT ![t].index = index]
    /\ UNCHANGED _contacts
    /\ Conc

\* get_contact, line 89: return self._contacts[index]
Subscript89(t) ==
    /\ pc[t] = "L89"
    /\ IF local[t].index > Len(_contacts)
       THEN Finish(t, "get_contact", "IndexError", NoRet)
       ELSE Finish(t, "get_contact", "ok", RetContact(_contacts[local[t].index]))
    /\ UNCHANGED <<_contacts, local>>
    /\ Conc

\* remove_contact, line 128: self._contacts.remove(id)
Remove128(t) ==
    /\ pc[t] = "L128"
    /\ LET r == remove_contact(_contacts, local[t].contact)
       IN  /\ _contacts' = r.contacts
           /\ Finish(t, "remove_contact", r.outcome, r.ret)
    /\ UNCHANGED local
    /\ Conc

\* __len__, line 144: return len(self._contacts)
Len144(t) ==
    /\ pc[t] = "L144"
    /\ Finish(t, "__len__", "ok", RetInt(len(_contacts)))
    /\ UNCHANGED <<_contacts, local>>
    /\ Conc

NextConc ==
    \E t \in Threads :
        \/ Begin(t)
        \/ Test74(t)
        \/ Remove75(t)
        \/ Append76(t)
        \/ Test77(t)
        \/ Append78(t)
        \/ Index88(t)
        \/ Subscript89(t)
        \/ Remove128(t)
        \/ Len144(t)

InitConc == Init /\ range_min = 0

SpecConc == InitConc /\ [][NextConc]_vars

(***************************************************************************)
(* What the properties are stated with.                                    *)
(***************************************************************************)
\* The last call was name.
Called(name) == op = name
\* The list holds a contact with ID i.
HasId(list, i) == \E j \in 1..Len(list) : list[j].id = i
\* The contacts of the list other than the one with ID i, in order.
Others(list, i) == SelectSeq(list, LAMBDA c : c.id # i)
\* The first n elements of the list.
Prefix(list, n) == SubSeq(list, 1, n)
Min(a, b) == IF a < b THEN a ELSE b
\* The argument of the last call names the contact by a Contact or an ID.
TargetId == arg.contact.id
\* How many contacts the last get_contacts call asked for.
Asked == IF arg.count <= 0 THEN Len(prev) ELSE Min(arg.count, Len(prev))

(***************************************************************************)
(* C1.  Capacity bound: in every state reached from the empty bucket by    *)
(* any sequence of calls, successful or failing, 0 <= size <= K.           *)
(***************************************************************************)
C1_CapacityBound == 0 <= Len(_contacts) /\ Len(_contacts) <= K

\* A full bucket that has just turned a new contact away.
C1_Witness ==
    /\ Called("add_contact")
    /\ outcome = "KBucketFull"
    /\ Len(_contacts) = K

(***************************************************************************)
(* C2.  Uniqueness: no two elements of the list have the same ID, also     *)
(* after a contact already present is added again.                         *)
(***************************************************************************)
C2_UniqueIds ==
    \A i, j \in 1..Len(_contacts) :
        i # j => _contacts[i].id # _contacts[j].id

\* A contact held at one address has just been added again at another.
C2_Witness ==
    /\ Called("add_contact")
    /\ outcome = "ok"
    /\ \E j \in 1..Len(prev) :
          prev[j].id = TargetId /\ prev[j].addr # arg.contact.addr
    /\ Len(_contacts) >= 2

(***************************************************************************)
(* C3.  Recency order: the contacts stand in the order of their most       *)
(* recent successful add_contact, the least recently added at the head and *)
(* the most recently added at the tail; and a call other than a successful *)
(* add_contact leaves the remaining contacts in the order they had.        *)
(***************************************************************************)
C3_RecencyOrder ==
    /\ \A i \in Ids : seen[i] # 0 <=> HasId(_contacts, i)
    /\ \A i, j \in 1..Len(_contacts) :
          i < j => seen[_contacts[i].id] < seen[_contacts[j].id]
    /\ ~(Called("add_contact") /\ outcome = "ok") =>
          _contacts = SelectSeq(prev, LAMBDA c : HasId(_contacts, c.id))

\* Touching the head of a full bucket has just reordered it.
C3_Witness ==
    /\ Called("add_contact")
    /\ outcome = "ok"
    /\ Len(prev) = K
    /\ prev[1].id = TargetId
    /\ _contacts[1].id # prev[1].id

(***************************************************************************)
(* C4.  add_contact on a full bucket: with K contacts held and the ID not  *)
(* among them, the call raises KBucketFull and the list, elements and      *)
(* order, and so its size, is what it was before the call.                 *)
(***************************************************************************)
C4_FullRejects ==
    (Called("add_contact") /\ Len(prev) = K /\ ~HasId(prev, TargetId)) =>
        /\ outcome = "KBucketFull"
        /\ _contacts = prev
        /\ Len(_contacts) = K

C4_Witness ==
    /\ Called("add_contact")
    /\ Len(prev) = K
    /\ ~HasId(prev, TargetId)
    /\ outcome = "KBucketFull"

(***************************************************************************)
(* C5.  add_contact of a contact already present, at any size up to K:     *)
(* the call returns (never KBucketFull), the size is unchanged, the        *)
(* contact is at the tail and the other contacts keep their order.         *)
(***************************************************************************)
C5_TouchPresent ==
    (Called("add_contact") /\ HasId(prev, TargetId)) =>
        /\ outcome = "ok"
        /\ Len(_contacts) = Len(prev)
        /\ _contacts[Len(_contacts)] = arg.contact
        /\ Others(_contacts, TargetId) = Others(prev, TargetId)
        /\ Len(Others(_contacts, TargetId)) = Len(prev) - 1

\* The head of a full bucket touched: two other contacts to keep in order.
C5_Witness ==
    /\ Called("add_contact")
    /\ Len(prev) = K
    /\ K >= 3
    /\ prev[1].id = TargetId
    /\ outcome = "ok"
    /\ _contacts[K] = arg.contact

(***************************************************************************)
(* C6.  add_contact of a new contact to a bucket with room: the call       *)
(* returns, the size grows by exactly one, the new contact is the last     *)
(* element and the previous list is a prefix of the new one.               *)
(***************************************************************************)
C6_AppendNew ==
    (Called("add_contact") /\ Len(prev) < K /\ ~HasId(prev, TargetId)) =>
        /\ outcome = "ok"
        /\ Len(_contacts) = Len(prev) + 1
        /\ _contacts[Len(_contacts)] = arg.contact
        /\ Prefix(_contacts, Len(prev)) = prev

\* The last free place of a bucket has just been taken.
C6_Witness ==
    /\ Called("add_contact")
    /\ Len(prev) = K - 1
    /\ ~HasId(prev, TargetId)
    /\ outcome = "ok"
    /\ Len(_contacts) = K

(***************************************************************************)
(* C7.  remove_contact is all or nothing.  With the ID present it removes  *)
(* that element alone: the size drops by one, the other contacts keep      *)
(* their order and a get_contact of the ID now raises ValueError.  With    *)
(* the ID absent it raises ValueError and the list is unchanged.           *)
(***************************************************************************)
C7_RemoveAllOrNothing ==
    Called("remove_contact") =>
        IF HasId(prev, TargetId)
        THEN /\ outcome = "ok"
             /\ Len(_contacts) = Len(prev) - 1
             /\ _contacts = Others(prev, TargetId)
             /\ get_contact(_contacts, arg.contact).outcome = "ValueError"
        ELSE /\ outcome = "ValueError"
             /\ _contacts = prev

\* A contact has just been taken out of the middle of a full bucket.
C7_Witness ==
    /\ Called("remove_contact")
    /\ outcome = "ok"
    /\ Len(prev) = K
    /\ K >= 3
    /\ prev[2].id = TargetId
    /\ Len(_contacts) = K - 1

(***************************************************************************)
(* C8.  get_contact returns the stored contact whose ID is the one asked   *)
(* for exactly when the bucket holds one, raises ValueError exactly when   *)
(* it holds none, and leaves the list unchanged either way.                *)
(***************************************************************************)
C8_GetContact ==
    Called("get_contact") =>
        /\ _contacts = prev
        /\ IF HasId(prev, TargetId)
           THEN /\ outcome = "ok"
                /\ ret.kind = "Contact"
                /\ ret.contact.id = TargetId
                /\ \E j \in 1..Len(prev) : prev[j] = ret.contact
           ELSE /\ outcome = "ValueError"
                /\ ret = NoRet

\* Asked for by a Contact at another address, the stored one is returned.
C8_Witness ==
    /\ Called("get_contact")
    /\ outcome = "ok"
    /\ arg.contact.kind = "Contact"
    /\ ret.contact # arg.contact
    /\ ret.contact.id = TargetId
    /\ Len(prev) >= 2

(***************************************************************************)
(* C9.  get_contacts without an exclusion: every contact in stored order   *)
(* when count <= 0, otherwise the first min(count, size) contacts in       *)
(* stored order; a count above the size returns everything and the empty   *)
(* bucket returns the empty list, neither raising.                         *)
(***************************************************************************)
C9_PrefixRule ==
    (Called("get_contacts") /\ arg.contact = None) =>
        /\ outcome = "ok"
        /\ ret.kind = "list"
        /\ arg.count <= 0 => ret.list = prev
        /\ arg.count > 0 => ret.list = Prefix(prev, Min(arg.count, Len(prev)))
        /\ arg.count > Len(prev) => ret.list = prev
        /\ prev = <<>> => ret.list = <<>>

\* A proper, non-empty prefix has just been returned.
C9_Witness ==
    /\ Called("get_contacts")
    /\ arg.contact = None
    /\ 0 < arg.count
    /\ arg.count < Len(prev)
    /\ ret.list = <<prev[1]>>

(***************************************************************************)
(* C10.  get_contacts applies the exclusion after the truncation: the      *)
(* result is the truncated prefix without the excluded contact when that   *)
(* prefix holds it (one shorter, nothing pulled in from beyond the         *)
(* prefix), and the whole prefix of min(count, size) contacts when the     *)
(* excluded contact lies beyond the prefix or is not in the bucket.        *)
(***************************************************************************)
C10_ExcludeAfterTruncate ==
    (Called("get_contacts") /\ arg.contact # None) =>
        /\ outcome = "ok"
        /\ ret.kind = "list"
        /\ IF HasId(Prefix(prev, Asked), TargetId)
           THEN /\ ret.list = Others(Prefix(prev, Asked), TargetId)
                /\ Len(ret.list) = Asked - 1
           ELSE ret.list = Prefix(prev, Asked)

\* The excluded contact was in a proper prefix: the result is one short
\* although the bucket held a contact that could have filled the gap.
C10_Witness ==
    /\ Called("get_contacts")
    /\ arg.contact # None
    /\ arg.count = 2
    /\ Len(prev) > 2
    /\ HasId(Prefix(prev, 2), TargetId)
    /\ Len(ret.list) = 1

(***************************************************************************)
(* C11.  get_contacts returns an independent list: whatever the count and  *)
(* the exclusion, also when an excluded contact is taken out of the        *)
(* result, the call leaves the bucket's list as it was; and a later        *)
(* add_contact or remove_contact leaves a list already returned as it was  *)
(* returned.                                                               *)
(***************************************************************************)
C11_IndependentList ==
    /\ Called("get_contacts") => _contacts = prev
    /\ held = given

\* A contact of a list returned earlier has since been removed from the
\* bucket, and the returned list still holds it.
C11_Witness ==
    /\ Called("remove_contact")
    /\ outcome = "ok"
    /\ Len(given) >= 2
    /\ HasId(given, TargetId)
    /\ ~HasId(_contacts, TargetId)
    /\ held = given

(***************************************************************************)
(* C12.  key_in_range(key) is true exactly when range_min <= key <         *)
(* range_max, for every integer key: true of range_min and false of        *)
(* range_max when range_min < range_max, so that of two buckets covering   *)
(* adjacent ranges [a, b) and [b, c) never both accept a key and one of    *)
(* them accepts every key of [a, c).                                       *)
(***************************************************************************)
\* The buckets built for the range next to this bucket's, above or below.
Neighbours == {r \in Ranges : r[1] = range_max \/ r[2] = range_min}

C12_HalfOpenRange ==
    (Called("key_in_range") /\ arg.key.kind = "int") =>
        LET k == arg.key.n
        IN  /\ ret.b <=> k \in range_min..(range_max - 1)
            /\ (k = range_min /\ range_min < range_max) => ret.b
            /\ k = range_max => ~ret.b
            /\ \A r \in Neighbours :
                  LET other == key_in_range(r[1], r[2], arg.key)
                      a == Min(r[1], range_min)
                      c == IF r[2] > range_max THEN r[2] ELSE range_max
                  IN  /\ ~(ret.b /\ other)
                      /\ k \in a..(c - 1) => (ret.b \/ other)

\* The key at the upper bound is turned away by the bucket whose range
\* ends there and taken by the bucket whose range starts there.
C12_Witness ==
    /\ Called("key_in_range")
    /\ arg.key.kind = "int"
    /\ arg.key.n = range_max
    /\ ~ret.b
    /\ \E r \in Neighbours : key_in_range(r[1], r[2], arg.key)

(***************************************************************************)
(* C13.  Concurrent writes are serialized per bucket: however the steps    *)
(* of overlapping add_contact and remove_contact calls of several threads  *)
(* interleave, the bucket never holds more than K contacts nor two         *)
(* contacts with the same ID.                                              *)
(***************************************************************************)
C13_SerializedWrites ==
    /\ Len(_contacts) <= K
    /\ \A i, j \in 1..Len(_contacts) :
          i < j => _contacts[i].id # _contacts[j].id

(***************************************************************************)
(* C14.  Reads never observe a partial write: a get_contact or __len__     *)
(* call that overlaps an add_contact touching a contact c already present, *)
(* no remove_contact of c being under way, never finds c absent and never  *)
(* sees a size one below the size before and after the touch.              *)
(***************************************************************************)
C14_ReadsSeeWholeWrites ==
    /\ (Called("get_contact") /\ TargetId \in mid) => outcome = "ok"
    /\ (Called("__len__") /\ mid # {}) =>
          ret.n # Len(_contacts) + Cardinality(mid) - 1

(***************************************************************************)
(* C15.  Error kinds are bound to the methods in every execution, also     *)
(* when calls on one bucket overlap: add_contact fails only with           *)
(* KBucketFull, and then the bucket holds K contacts none of which has the *)
(* contact's ID; it never fails with ValueError or anything else;          *)
(* get_contact and remove_contact fail only with ValueError.               *)
(***************************************************************************)
C15_ErrorKinds ==
    /\ Called("add_contact") => outcome \in {"ok", "KBucketFull"}
    /\ (Called("add_contact") /\ outcome = "KBucketFull") =>
          Len(_contacts) >= K
    /\ (Called("get_contact") \/ Called("remove_contact")) =>
          outcome \in {"ok", "ValueError"}

(***************************************************************************)
(* C16.  The bucket never evicts on its own: a contact added successfully  *)
(* stays in the bucket in every later state until a remove_contact naming  *)
(* its ID succeeds; no add_contact, successful or not, takes out a contact *)
(* other than the one it touches; and a full bucket stays full and turns   *)
(* every new ID away until a remove_contact succeeds.                      *)
(***************************************************************************)
Removed == Called("remove_contact") /\ outcome = "ok"

C16_NeverEvicts ==
    /\ \A i \in Ids : seen[i] # 0 => HasId(_contacts, i)
    /\ \A i \in Ids :
          (HasId(prev, i) /\ ~HasId(_contacts, i)) => (Removed /\ TargetId = i)
    /\ (Len(prev) = K /\ ~Removed) =>
          /\ Len(_contacts) = K
          /\ (Called("add_contact") /\ ~HasId(prev, TargetId)) =>
                outcome = "KBucketFull"

\* A full bucket has turned away an ID it never held and still holds the
\* K contacts added before.
C16_Witness ==
    /\ Called("add_contact")
    /\ outcome = "KBucketFull"
    /\ seen[TargetId] = 0
    /\ Cardinality({i \in Ids : seen[i] # 0 /\ HasId(_contacts, i)}) = K

(***************************************************************************)
(* C17.  key_in_range agrees across representations: for an integer key k *)
(* and its hex string h, key_in_range(k) equals key_in_range(h).           *)
(***************************************************************************)
\* The hex digits of n, most significant first.
RECURSIVE ToHex(_)
ToHex(n) == IF n < 16 THEN <<n>> ELSE ToHex(n \div 16) \o <<n % 16>>

\* A hex string without its leading zeros.
RECURSIVE StripZeros(_)
StripZeros(h) ==
    IF Len(h) > 1 /\ h[1] = 0 THEN StripZeros(Tail(h)) ELSE h

\* The integers whose hex strings the keys are drawn from.
KeySpace == 0..32

C17_SameInBothForms ==
    Called("key_in_range") =>
        /\ arg.key.kind = "int" =>
              ret.b = key_in_range(range_min, range_max, StrKey(ToHex(arg.key.n)))
        /\ arg.key.kind = "str" =>
              \A k \in KeySpace :
                  ToHex(k) = StripZeros(arg.key.digits) =>
                      ret.b = key_in_range(range_min, range_max, IntKey(k))

\* The hex string 03 has been taken by the bucket whose range starts at 3.
C17_Witness ==
    /\ Called("key_in_range")
    /\ arg.key = StrKey(<<0, 3>>)
    /\ range_min = 3
    /\ ret.b
    /\ key_in_range(range_min, range_max, IntKey(3))

(***************************************************************************)
(* C18.  Insertion does not validate the range: whether add_contact        *)
(* succeeds or raises KBucketFull, and the list it leaves, depend on the   *)
(* contacts held and on K alone, not on range_min and range_max; a contact *)
(* whose ID is outside the range is taken while there is room, so that     *)
(* every stored contact being in range is no invariant of the bucket.      *)
(***************************************************************************)
InRange(i) == key_in_range(range_min, range_max, IntKey(i))

C18_RangeNotValidated ==
    Called("add_contact") =>
        /\ outcome = "ok" <=> (HasId(prev, TargetId) \/ Len(prev) < K)
        /\ outcome = "ok" =>
              _contacts = Append(Others(prev, TargetId), arg.contact)
        /\ outcome # "ok" => (outcome = "KBucketFull" /\ _contacts = prev)
        /\ (~InRange(TargetId) /\ Len(prev) < K) => HasId(_contacts, TargetId)

\* A contact outside the bucket's range has just been stored.
C18_Witness ==
    /\ Called("add_contact")
    /\ outcome = "ok"
    /\ ~InRange(TargetId)
    /\ \E j \in 1..Len(_contacts) :
          _contacts[j] = arg.contact /\ ~InRange(_contacts[j].id)

(***************************************************************************)
(* C19.  Fixed range and untouched stamp: no call, successful or failing,  *)
(* changes range_min or range_max, and none changes last_accessed, which   *)
(* keeps the 0 it was built with.                                          *)
(***************************************************************************)
C19_FixedRangeAndStamp ==
    [][/\ range_min' = range_min
       /\ range_max' = range_max
       /\ last_accessed' = last_accessed
       /\ last_accessed' = 0]_vars

\* A failing call on the bucket built for [3, 20).
C19_Witness ==
    /\ Called("remove_contact")
    /\ outcome = "ValueError"
    /\ range_min = 3
    /\ range_max = 20
    /\ last_accessed = 0

(***************************************************************************)
(* C20.  Add/remove algebra: add_contact(c) straight after add_contact(c)  *)
(* leaves the bucket as the first call left it, also when that call raised *)
(* KBucketFull; add_contact(c) of a new c to a bucket with room followed   *)
(* by remove_contact(c) gives back exactly the list there was; and the     *)
(* size is the length of get_contacts(0).                                  *)
(***************************************************************************)
C20_AddRemoveAlgebra ==
    /\ Called("add_contact") =>
          LET again == add_contact(_contacts, arg.contact)
          IN  /\ again.contacts = _contacts
              /\ again.outcome = outcome
    /\ (Called("add_contact") /\ Len(prev) < K /\ ~HasId(prev, TargetId)) =>
          /\ remove_contact(_contacts, arg.contact).contacts = prev
          /\ remove_contact(_contacts, RawId(TargetId)).contacts = prev
    /\ len(_contacts) = Len(get_contacts(_contacts, 0, None).ret.list)
    /\ Called("__len__") => ret.n = Len(get_contacts(_contacts, 0, None).ret.list)

\* A new contact has just joined two others; removing it by its ID gives
\* the list back.
C20_Witness ==
    /\ Called("add_contact")
    /\ outcome = "ok"
    /\ ~HasId(prev, TargetId)
    /\ Len(prev) >= 2
    /\ remove_contact(_contacts, RawId(TargetId)).contacts = prev

=============================================================================
